---- MODULE Spec2Model ----
(***************************************************************************)
(* A model of src/app.py (MakerWorld -> Shopee template pipeline).         *)
(*                                                                         *)
(*   SpecScrape  : scrape(), the engine loop with its recursive escalation *)
(*   SpecResolve : _find_header_positions() on a family of worksheets      *)
(*   SpecWrite   : write_rows_to_shopee_template() on a loaded worksheet   *)
(*   SpecUrl     : shopee_safe_image_url() applied twice to a URL          *)
(*   SpecDesc    : _clean_desc_text() applied to a description             *)
(*   SpecJpg     : _shopee_safe_jpg_bytes() on an image                    *)
(*   SpecGallery : get_gallery_urls() on a detail page                     *)
(*                                                                         *)
(* Every specification owns a group of variables; the variables of the     *)
(* other groups stay at their idle values.                                 *)
(***************************************************************************)
EXTENDS Integers, Sequences, FiniteSets, TLC

VARIABLES
    \* ---- scrape() ----
    stack,       \* call stack of scrape(): one frame per active invocation
    max_results, \* argument max_results (same in every frame, line 501)
    proxy,       \* argument proxy: TRUE iff a proxy is configured
    passes,      \* history: one record per backend pass, in launch order
    restarts,    \* history: number of recursive calls made at line 501
    ret,         \* what the top-level call gave back to its caller
    \* ---- worksheet: _find_header_positions(), write_rows_to_shopee_template() ----
    ws,          \* the worksheet: [cells, max_column]
    hdr,         \* what the last call of _find_header_positions returned
    wr,          \* write_rows_to_shopee_template(): its locals and position
    \* ---- shopee_safe_image_url() ----
    u,           \* the URL handed to the first call
    safe,        \* the results of the calls so far, each applied to the last
    \* ---- _clean_desc_text() ----
    desc,        \* the description handed to the call
    cleaned,     \* what the call returned
    \* ---- _shopee_safe_jpg_bytes() ----
    jpg,         \* the image, the position in the quality loop, the result
    \* ---- get_gallery_urls() ----
    gal          \* the page, the position in the loop over images, urls

scrapeVars == <<stack, max_results, proxy, passes, restarts, ret>>
sheetVars  == <<ws, hdr, wr>>

urlVars    == <<u, safe>>
descVars   == <<desc, cleaned>>

mediaVars  == <<jpg, gal>>

vars == <<scrapeVars, sheetVars, urlVars, descVars, mediaVars>>

\* what an action of one group leaves alone
nonScrapeVars == <<sheetVars, urlVars, descVars, mediaVars>>
nonSheetVars  == <<scrapeVars, urlVars, descVars, mediaVars>>
nonUrlVars    == <<scrapeVars, sheetVars, descVars, mediaVars>>
nonDescVars   == <<scrapeVars, sheetVars, urlVars, mediaVars>>
nonJpgVars    == <<scrapeVars, sheetVars, urlVars, descVars, gal>>
nonGalVars    == <<scrapeVars, sheetVars, urlVars, descVars, jpg>>

(***************************************************************************)
(* The values a group of variables keeps while another group is at work.   *)
(***************************************************************************)
\* scrape has not returned
NoRet == [kind |-> "none", results |-> <<>>]

\* _find_header_positions has not been called
NotCalled ==
    [called |-> FALSE, hdr_row |-> 0, start_r |-> 0, found |-> <<>>, image_cols |-> <<>>]

IdleScrape ==
    /\ max_results = 1 /\ proxy = FALSE /\ stack = <<>>
    /\ passes = <<>> /\ restarts = 0 /\ ret = NoRet

\* a workbook not yet loaded
NoSheet == [cells |-> <<>>, max_column |-> 1]

\* write_rows_to_shopee_template has not been called
NoWrite ==
    [pc |-> "idle", rows |-> <<>>, hdr_row |-> 0, colmap_found |-> <<>>,
     img_cols |-> <<>>, r |-> 0, written |-> 0, before |-> NoSheet, last |-> <<>>,
     warranty |-> ""]

IdleSheet == ws = NoSheet /\ hdr = NotCalled /\ wr = NoWrite

\* _clean_desc_text has not returned
NotCleaned == [done |-> FALSE, text |-> <<>>]

IdleUrl == u = <<>> /\ safe = <<>>

IdleDesc == desc = <<>> /\ cleaned = NotCleaned

\* _shopee_safe_jpg_bytes has not been called
NoJpg == [pc |-> "idle", size |-> <<>>, i |-> 0, quality |-> 0, len |-> 0]

\* get_gallery_urls has not been called
NoGallery ==
    [pc |-> "idle", imgs |-> <<>>, has_g |-> FALSE, og |-> <<>>, i |-> 0,
     urls |-> <<>>, taken |-> <<>>]

IdleMedia == jpg = NoJpg /\ gal = NoGallery

(***************************************************************************)
(* Bounds                                                                  *)
(***************************************************************************)
MaxResultsArg == 1   \* max_results ranges over 1..MaxResultsArg
MaxAnchors    == 2   \* anchors found on a search page: at most this many

\* hrefs of detail pages
Urls == {"u1", "u2"}

RECURSIVE SeqsUpTo(_, _)
SeqsUpTo(S, n) ==
    IF n = 0 THEN {<<>>}
    ELSE LET shorter == SeqsUpTo(S, n - 1)
         IN  shorter \cup {Append(s, x) : s \in {t \in shorter : Len(t) = n - 1}, x \in S}

Range(s) == {s[i] : i \in 1..Len(s)}

\* what query_selector_all (line 505) can find on a search page
AnchorLists == SeqsUpTo(Urls, MaxAnchors)

(***************************************************************************)
(* Text.  A string is modelled as the sequence of its space-separated      *)
(* tokens; the empty string is <<>>.  After normalisation a token may be   *)
(* empty: it stands for the second of two adjacent spaces.                 *)
(***************************************************************************)
\* unicodedata.normalize/lower and re.sub(r"[^\w\s]", "", s) on one token
\* (lines 131-134): lower-case, punctuation removed.
NormTok(tok) ==
    CASE tok = "Category"    -> "category"
      [] tok = "Kategori"    -> "kategori"
      [] tok = "Product"     -> "product"
      [] tok = "Name"        -> "name"
      [] tok = "Description" -> "description"
      [] tok = "Photo"       -> "photo"
      [] tok = "Foto"        -> "foto"
      [] tok = "Sampul"      -> "sampul"
      [] tok = "Produk"      -> "produk"
      [] tok = "Cover"       -> "cover"
      [] tok = "Cover-Image" -> "coverimage"
      [] tok = "Image"       -> "image"
      [] tok = "Item"        -> "item"
      [] tok = "(1)"         -> "1"
      [] tok = "Nama"        -> "nama"
      [] tok = "Deskripsi"   -> "deskripsi"
      [] tok = "Harga"       -> "harga"
      [] tok = "Stok"        -> "stok"
      [] tok = "SKU"         -> "sku"
      [] tok = "Induk"       -> "induk"
      [] tok = "Berat"       -> "berat"
      [] tok = "(gram)"      -> "gram"
      [] tok = "Panjang"     -> "panjang"
      [] tok = "Lebar"       -> "lebar"
      [] tok = "Tinggi"      -> "tinggi"
      [] tok = "Paket"       -> "paket"
      [] tok = "(cm)"        -> "cm"
      [] tok = "Masa"        -> "masa"
      [] tok = "Garansi"     -> "garansi"
      [] tok = "-"           -> ""
      [] OTHER               -> tok

\* _norm_text (lines 129-135).  Whitespace is collapsed and the ends are
\* stripped BEFORE punctuation is removed, so a token made of punctuation
\* only leaves an empty token behind.
_norm_text(s) == [i \in 1..Len(s) |-> NormTok(s[i])]

Digits == {"1", "2", "3"}

ToInt(d) == CASE d = "1" -> 1 [] d = "2" -> 2 [] d = "3" -> 3 [] OTHER -> 0

Squeeze(t) == SelectSeq(t, LAMBDA w : w # "")

\* The texts IMG_LABEL_RE (lines 262-265) accepts, spaces squeezed:
\*   ^(foto\s+(sampul|utama|produk\s+\d+)|cover\s*image|item\s*image\s*\d+)$
\* "image1" is "image" directly followed by the digit, as one token.
ImgLabelForms ==
    {<<"foto", "sampul">>, <<"foto", "utama">>, <<"cover", "image">>, <<"coverimage">>}
    \cup {<<"foto", "produk", d>> : d \in Digits}
    \cup {<<"item", "image", d>> : d \in Digits}
    \cup {<<"itemimage", d>> : d \in Digits}
    \cup {<<"item", "image" \o d>> : d \in Digits}
    \cup {<<"itemimage" \o d>> : d \in Digits}

\* IMG_LABEL_RE.match(t): \s+ and \s* take any run of spaces (empty tokens),
\* ^ and $ take none.
IMG_LABEL_RE(t) ==
    /\ t # <<>> /\ t[1] # "" /\ t[Len(t)] # ""
    /\ Squeeze(t) \in ImgLabelForms

\* HEADER_ALIASES (lines 270-283), each alias through _norm_text (line 333)
HEADER_ALIASES ==
    [Kategori |-> {<<"kategori">>, <<"category">>, <<"product", "category">>,
                   <<"category", "id">>},
     NamaProduk |-> {<<"nama", "produk">>, <<"product", "name">>, <<"name">>, <<"nama">>},
     DeskripsiProduk |-> {<<"deskripsi", "produk">>, <<"product", "description">>,
                          <<"description">>},
     FotoProduk |-> {<<"foto", "produk">>, <<"images">>, <<"image", "urls">>,
                     <<"product", "images">>, <<"photo">>, <<"photos">>, <<"gambar">>,
                     <<"url", "gambar">>},
     Harga |-> {<<"harga">>, <<"price">>},
     Stok |-> {<<"stok">>, <<"stock">>, <<"quantity">>},
     SKUInduk |-> {<<"sku", "induk">>, <<"sku">>, <<"parent", "sku">>, <<"model", "sku">>},
     Berat |-> {<<"berat", "gram">>, <<"berat">>, <<"berat", "produk">>, <<"weight">>,
                <<"weight", "g">>, <<"weight", "gram">>},
     Panjang |-> {<<"panjang", "paket", "cm">>, <<"panjang", "cm">>, <<"panjang">>,
                  <<"length">>, <<"length", "cm">>},
     Lebar |-> {<<"lebar", "paket", "cm">>, <<"lebar", "cm">>, <<"lebar">>, <<"width">>,
                <<"width", "cm">>},
     Tinggi |-> {<<"tinggi", "paket", "cm">>, <<"tinggi", "cm">>, <<"tinggi">>,
                 <<"height">>, <<"height", "cm">>},
     MasaGaransi |-> {<<"masa", "garansi">>, <<"garansi">>, <<"warranty", "period">>,
                      <<"warranty">>, <<"warranty", "duration">>}]

Targets == DOMAIN HEADER_ALIASES

\* found = {}
NothingFound == [t \in Targets |-> 0]

(***************************************************************************)
(* Worksheet.  ws.cells[r][c] is the value of cell (r, c), <<>> for an     *)
(* empty cell; a cell outside the stored grid is empty.                    *)
(***************************************************************************)
\* ws.cell(r, c).value
CellValue(sheet, r, c) ==
    IF r \in DOMAIN sheet.cells /\ c \in DOMAIN sheet.cells[r]
    THEN sheet.cells[r][c] ELSE <<>>

(***************************************************************************)
(* _find_header_positions(): lines 317-347                                 *)
(***************************************************************************)
\* The scanned window.  The source scans search_rows=50 rows and
\* search_cols=160 columns; the model scans a window of the same shape, small
\* enough to enumerate every worksheet of the family below.
search_rows == 2
search_cols == 4

\* for h_rows in (1, 2, 3)
HeaderHeights_Descending == <<3, 2, 1>>

HeaderHeights == <<1, 2, 3>>

MinOf(a, b) == IF a < b THEN a ELSE b

\* lines 322-327: the non-blank cells of column c in rows
\* start_r .. min(start_r+h_rows, search_rows+1)-1, joined by a space
RECURSIVE MergedFrom(_, _, _, _)
MergedFrom(sheet, c, rr, stop) ==
    IF rr >= stop THEN <<>>
    ELSE CellValue(sheet, rr, c) \o MergedFrom(sheet, c, rr + 1, stop)

\* lines 320-328: normalized, the list of the columns' texts
RECURSIVE NormalizedFrom(_, _, _, _)
NormalizedFrom(sheet, start_r, h_rows, c) ==
    IF c > search_cols THEN <<>>
    ELSE <<_norm_text(MergedFrom(sheet, c, start_r,
                                 MinOf(start_r + h_rows, search_rows + 1)))>>
         \o NormalizedFrom(sheet, start_r, h_rows, c + 1)

Normalized(sheet, start_r, h_rows) == NormalizedFrom(sheet, start_r, h_rows, 1)

\* lines 334-337: the columns are visited in ascending order and the first
\* one whose text is an alias wins (break); 0 when the loop ends without.
RECURSIVE FirstAliasCol(_, _, _)
FirstAliasCol(normalized, aliases, c) ==
    IF c > search_cols THEN 0
    ELSE IF normalized[c] # <<>> /\ normalized[c] \in aliases THEN c
    ELSE FirstAliasCol(normalized, aliases, c + 1)

\* lines 331-337: found; found[t] = 0 stands for "t not in found"
Found(normalized) ==
    [t \in Targets |-> FirstAliasCol(normalized, HEADER_ALIASES[t], 1)]

\* target in found
In(target, found) == found[target] # 0

\* lines 339-342: image_cols, in the order of the loop (ascending columns)
RECURSIVE ImageColsFrom(_, _)
ImageColsFrom(normalized, c) ==
    IF c > search_cols THEN <<>>
    ELSE (IF normalized[c] # <<>> /\ IMG_LABEL_RE(normalized[c]) THEN <<c>> ELSE <<>>)
         \o ImageColsFrom(normalized, c + 1)

\* sorted(list of integers)
RECURSIVE SortedInts(_)
SortedInts(s) ==
    IF s = <<>> THEN <<>>
    ELSE LET m == CHOOSE x \in Range(s) : \A y \in Range(s) : x <= y
             i == CHOOSE k \in 1..Len(s) : s[k] = m
         IN  <<m>> \o SortedInts(SubSeq(s, 1, i - 1) \o SubSeq(s, i + 1, Len(s)))

\* lines 344-345
HeaderAccepted(found, image_cols) ==
    /\ In("Kategori", found)
    /\ In("NamaProduk", found)
    /\ \/ In("DeskripsiProduk", found)
       \/ image_cols # <<>>
       \/ In("FotoProduk", found)

NoHeader ==
    [called |-> TRUE, hdr_row |-> 0, start_r |-> 0, found |-> NothingFound,
     image_cols |-> <<>>]

\* The two nested loops of lines 318-319 from (start_r, HeaderHeights[k]) on;
\* line 346 returns at the first accepted combination, line 347 otherwise.
\* hdr_row = 0 stands for None.  start_r is history: the row the accepted
\* header begins in.
RECURSIVE ScanFrom(_, _, _)
ScanFrom(sheet, start_r, k) ==
    IF start_r > search_rows THEN NoHeader
    ELSE IF k > Len(HeaderHeights) THEN ScanFrom(sheet, start_r + 1, 1)
    ELSE LET h_rows     == HeaderHeights[k]
             normalized == Normalized(sheet, start_r, h_rows)
             found      == Found(normalized)
             image_cols == ImageColsFrom(normalized, 1)
         IN  IF HeaderAccepted(found, image_cols)
             THEN [called |-> TRUE, hdr_row |-> start_r + h_rows - 1,
                   start_r |-> start_r, found |-> found,
                   image_cols |-> SortedInts(image_cols)]
             ELSE ScanFrom(sheet, start_r, k + 1)

_find_header_positions(sheet) == ScanFrom(sheet, 1, 1)

(***************************************************************************)
(* Worksheets handed to _find_header_positions.  Every column holds        *)
(* nothing, one label, or a label split over two rows, somewhere in the    *)
(* scanned window.                                                         *)
(***************************************************************************)
Labels == {<<"Category">>, <<"Description">>, <<"Photo">>, <<"Foto", "Sampul">>}

\* a label written over two rows of one column
SplitLabel == << <<"Product">>, <<"Name">> >>

GridRows == 1..search_rows

\* a column: the labels of stack st in the rows top, top+1, ... of the grid
ColumnOf(top, st) ==
    [r \in GridRows |-> IF r >= top /\ r < top + Len(st) THEN st[r - top + 1] ELSE <<>>]

\* The split label may begin in the row above the grid: "Name" alone is
\* then left in row 1.
Columns ==
    {[r \in GridRows |-> <<>>]}
    \cup {ColumnOf(top, <<l>>) : top \in GridRows, l \in Labels}
    \cup {ColumnOf(top, SplitLabel) : top \in 0..(search_rows - 1)}

SheetOf(cols) ==
    [cells |-> [r \in GridRows |-> [c \in 1..search_cols |-> cols[c][r]]],
     max_column |-> search_cols]

\* hdr_row, found, image_cols = _find_header_positions(ws)
Resolve ==
    /\ ~hdr.called
    /\ hdr' = _find_header_positions(ws)
    /\ UNCHANGED <<ws, wr>>
    /\ UNCHANGED nonSheetVars

InitResolve ==
    /\ \E cols \in [1..search_cols -> Columns] : ws = SheetOf(cols)
    /\ hdr = NotCalled
    /\ wr = NoWrite
    /\ IdleScrape /\ IdleUrl /\ IdleDesc /\ IdleMedia

NextResolve == Resolve

SpecResolve == InitResolve /\ [][NextResolve]_vars

(***************************************************************************)
(* Claims about _find_header_positions                                     *)
(***************************************************************************)
\* the text of column c for the pair (s, h): the cells of the rows
\* s .. s+h-1 that lie in the scanned window, top to bottom, normalised
RECURSIVE RowsText(_, _, _)
RowsText(c, lo, hi) ==
    IF hi < lo THEN <<>> ELSE RowsText(c, lo, hi - 1) \o CellValue(ws, hi, c)

PairText(p, c) == _norm_text(RowsText(c, p[1], MinOf(p[1] + p[2] - 1, search_rows)))

MatchCols(p, t) == {c \in 1..search_cols : PairText(p, c) \in HEADER_ALIASES[t]}

SlotCols(p) == {c \in 1..search_cols : IMG_LABEL_RE(PairText(p, c))}

AcceptedPair(p) ==
    /\ MatchCols(p, "Kategori") # {}
    /\ MatchCols(p, "NamaProduk") # {}
    /\ \/ MatchCols(p, "DeskripsiProduk") # {}
       \/ SlotCols(p) # {}
       \/ MatchCols(p, "FotoProduk") # {}

Pairs == (1..search_rows) \X {1, 2, 3}

Before(p, q) == p[1] < q[1] \/ (p[1] = q[1] /\ p[2] < q[2])

AcceptedPairs == {p \in Pairs : AcceptedPair(p)}

LeastOf(S) == CHOOSE x \in S : \A y \in S : x <= y

\* C4: _find_header_positions returns the header of the accepted
\* (startRow, height) pair that is least in the order startRow ascending,
\* then height ascending; every field is reported at the lowest column whose
\* text is one of its aliases (and not at all when no column matches); it
\* returns None iff no pair of the window is accepted.
C4_FirstAcceptedPair ==
    hdr.called =>
        IF AcceptedPairs = {}
        THEN hdr.hdr_row = 0
        ELSE LET p == CHOOSE q \in AcceptedPairs :
                         \A o \in AcceptedPairs : o = q \/ Before(q, o)
             IN  /\ hdr.hdr_row = p[1] + p[2] - 1
                 /\ \A t \in Targets :
                      IF MatchCols(p, t) = {}
                      THEN ~In(t, hdr.found)
                      ELSE hdr.found[t] = LeastOf(MatchCols(p, t))

\* a header of two rows was returned although a later pair is accepted too,
\* and some field matches in two columns
C4_Witness ==
    /\ hdr.called
    /\ hdr.hdr_row = 2
    /\ <<1, 2>> \in AcceptedPairs
    /\ <<1, 1>> \notin AcceptedPairs
    /\ <<2, 1>> \in AcceptedPairs
    /\ \E t \in Targets : Cardinality(MatchCols(<<1, 2>>, t)) >= 2

(***************************************************************************)
(* scrape(): lines 472-553                                                 *)
(***************************************************************************)
\* for engine in ("chromium","webkit","firefox")
Engines == <<"chromium", "webkit", "firefox">>

\* A new invocation of scrape(keyword, max_results, headless, proxy):
\* results=[] and the with-statement of line 474 not yet entered.
\* call numbers the invocations (0: the top-level one), pass the entry of
\* passes that records the pass under way: both are history only.
NewFrame(headless, call) ==
    [headless |-> headless, pc |-> "enter", engine |-> 1,
     results |-> <<>>, links |-> <<>>, call |-> call, pass |-> 0]

Top == stack[Len(stack)]

SetTop(f) == [stack EXCEPT ![Len(stack)] = f]

\* links=[]; seen=set(); for a in anchors: dedup, stop at max_results
RECURSIVE CollectFrom(_, _, _)
CollectFrom(anchors, links, cap) ==
    IF anchors = <<>> THEN links
    ELSE LET h  == Head(anchors)
             l2 == IF h \in Range(links) THEN links ELSE Append(links, h)
         IN  IF Len(l2) >= cap THEN l2
             ELSE CollectFrom(Tail(anchors), l2, cap)

\* links[:max_results]
Prefix(s, n) == SubSeq(s, 1, IF Len(s) < n THEN Len(s) ELSE n)

\* The for-loop's step to the following engine; after firefox the loop ends
\* and line 553 returns results.
NextEngine(f) ==
    IF f.engine = Len(Engines)
    THEN [f EXCEPT !.pc = "return"]
    ELSE [f EXCEPT !.pc = "launch", !.engine = f.engine + 1]

\* line 547 left out: the loop always goes on to the following engine
AfterPass_NoBreak(f) == NextEngine(f)

\* if results: break   (line 547)
AfterPass(f) ==
    IF f.results # <<>> THEN [f EXCEPT !.pc = "return"] ELSE NextEngine(f)

\* except Exception as e: ... (lines 548-552): the pass is over, results is
\* kept as it is, the loop goes on with the following engine.
OnException(f) == NextEngine(f)

MarkPass(p, outcome) == [passes EXCEPT ![p].outcome = outcome]

\* with sync_playwright() as p:  (line 474) succeeds
EnterPlaywright ==
    /\ stack # <<>> /\ Top.pc = "enter"
    /\ stack' = SetTop([Top EXCEPT !.pc = "launch"])
    /\ UNCHANGED <<max_results, proxy, passes, restarts, ret>>
    /\ UNCHANGED nonScrapeVars

\* with sync_playwright() as p:  (line 474) raises.  The statement is outside
\* the try of line 477, so the exception leaves this invocation: it reaches
\* the caller of scrape, or, for the recursive call of line 501, the except
\* clause of the calling invocation (the call sits inside its try).
EnterPlaywrightFails ==
    /\ stack # <<>> /\ Top.pc = "enter"
    /\ IF Len(stack) = 1
       THEN /\ stack' = <<>>
            /\ ret' = [kind |-> "raised", results |-> <<>>]
            /\ UNCHANGED passes
       ELSE LET caller == stack[Len(stack) - 1]
            IN  /\ stack' = [SubSeq(stack, 1, Len(stack) - 1)
                                EXCEPT ![Len(stack) - 1] = OnException(caller)]
                /\ passes' = MarkPass(caller.pass, "exception")
                /\ UNCHANGED ret
    /\ UNCHANGED <<max_results, proxy, restarts>>
    /\ UNCHANGED nonScrapeVars

\* lines 476-493: launch the engine's persistent context and open the search
\* page.
Launch ==
    /\ stack # <<>> /\ Top.pc = "launch"
    /\ passes' = Append(passes, [call |-> Top.call, engine |-> Top.engine,
                                 headless |-> Top.headless, outcome |-> "running",
                                 yielded |-> 0, persisted |-> FALSE])
    /\ stack' = SetTop([Top EXCEPT !.pc = "search", !.pass = Len(passes) + 1])
    /\ UNCHANGED <<max_results, proxy, restarts, ret>>
    /\ UNCHANGED nonScrapeVars

\* Any statement of the try block raising: launch/goto (478-491), page.content
\* (495), ctx.close (500), query_selector_all/get_attribute (505-506),
\* page.goto and the extraction of a detail page (514-536), ctx.close (546).
\* Nothing can raise between the last results.append and line 546:
\* storage_state is wrapped in its own try/except.
PassRaises ==
    /\ stack # <<>> /\ Top.pc \in {"search", "collect", "visit", "finish", "escalate"}
    /\ Top.pc = "visit" => Top.links # <<>>
    /\ passes' = MarkPass(Top.pass, "exception")
    /\ stack' = SetTop(OnException(Top))
    /\ UNCHANGED <<max_results, proxy, restarts, ret>>
    /\ UNCHANGED nonScrapeVars

\* lines 495-502: looks_like_cf(page.content())
DetectChallenge ==
    /\ stack # <<>> /\ Top.pc = "search"
    /\ \E cf \in BOOLEAN :
         IF cf /\ Top.headless /\ ~proxy
         THEN \* ctx.storage_state(path=STATE_FILE), then ctx.close()
              /\ passes' = [passes EXCEPT ![Top.pass].persisted = TRUE]
              /\ stack' = SetTop([Top EXCEPT !.pc = "escalate"])
         ELSE /\ stack' = SetTop([Top EXCEPT !.pc = "collect"])
              /\ UNCHANGED passes
    /\ UNCHANGED <<max_results, proxy, restarts, ret>>
    /\ UNCHANGED nonScrapeVars

\* line 501: return scrape(keyword, max_results, headless=False, proxy=proxy)
Escalate ==
    /\ stack # <<>> /\ Top.pc = "escalate"
    /\ stack' = Append(SetTop([Top EXCEPT !.pc = "waitinner"]), NewFrame(FALSE, restarts + 1))
    /\ passes' = MarkPass(Top.pass, "restart")
    /\ restarts' = restarts + 1
    /\ UNCHANGED <<max_results, proxy, ret>>
    /\ UNCHANGED nonScrapeVars

\* lines 504-511
CollectLinks ==
    /\ stack # <<>> /\ Top.pc = "collect"
    /\ \E anchors \in AnchorLists :
         stack' = SetTop([Top EXCEPT !.pc = "visit",
                                     !.links = Prefix(CollectFrom(anchors, <<>>, max_results),
                                                      max_results)])
    /\ UNCHANGED <<max_results, proxy, passes, restarts, ret>>
    /\ UNCHANGED nonScrapeVars

\* lines 513-543: one iteration of the detail-page loop
VisitLink ==
    /\ stack # <<>> /\ Top.pc = "visit" /\ Top.links # <<>>
    /\ stack' = SetTop([Top EXCEPT
                          !.results = Append(@, [url |-> Head(Top.links), pass |-> Top.pass]),
                          !.links = Tail(@)])
    /\ passes' = [passes EXCEPT ![Top.pass].yielded = @ + 1]
    /\ UNCHANGED <<max_results, proxy, restarts, ret>>
    /\ UNCHANGED nonScrapeVars

\* the loop of line 513 is over; lines 544-545 follow
LinksDone ==
    /\ stack # <<>> /\ Top.pc = "visit" /\ Top.links = <<>>
    /\ passes' = [passes EXCEPT ![Top.pass].persisted = TRUE]
    /\ stack' = SetTop([Top EXCEPT !.pc = "finish"])
    /\ UNCHANGED <<max_results, proxy, restarts, ret>>
    /\ UNCHANGED nonScrapeVars

\* lines 546-547: ctx.close(); if results: break
FinishPass ==
    /\ stack # <<>> /\ Top.pc = "finish"
    /\ passes' = MarkPass(Top.pass, "ok")
    /\ stack' = SetTop(AfterPass(Top))
    /\ UNCHANGED <<max_results, proxy, restarts, ret>>
    /\ UNCHANGED nonScrapeVars

\* line 553 (and line 501 in the calling invocation, which returns what the
\* recursive call returned)
Return ==
    /\ stack # <<>> /\ Top.pc = "return"
    /\ IF Len(stack) = 1
       THEN /\ stack' = <<>>
            /\ ret' = [kind |-> "value", results |-> Top.results]
       ELSE /\ stack' = [SubSeq(stack, 1, Len(stack) - 1)
                            EXCEPT ![Len(stack) - 1] =
                                [@ EXCEPT !.pc = "return", !.results = Top.results]]
            /\ UNCHANGED ret
    /\ UNCHANGED <<max_results, proxy, passes, restarts>>
    /\ UNCHANGED nonScrapeVars

ScrapeInit ==
    /\ max_results \in 1..MaxResultsArg
    /\ proxy \in BOOLEAN
    /\ \E headless \in BOOLEAN : stack = <<NewFrame(headless, 0)>>
    /\ passes = <<>>
    /\ restarts = 0
    /\ ret = NoRet

InitScrape == ScrapeInit /\ IdleSheet /\ IdleUrl /\ IdleDesc /\ IdleMedia

NextScrape ==
    \/ EnterPlaywright
    \/ EnterPlaywrightFails
    \/ Launch
    \/ PassRaises
    \/ DetectChallenge
    \/ Escalate
    \/ CollectLinks
    \/ VisitLink
    \/ LinksDone
    \/ FinishPass
    \/ Return

SpecScrape == InitScrape /\ [][NextScrape]_vars

(***************************************************************************)
(* Claims about scrape()                                                   *)
(***************************************************************************)
PassIds == 1..Len(passes)

\* C1: the whole-keyword scrape is restarted at most once per top-level
\* call: a restart (the recursive call of line 501) is made only from a
\* headless invocation without proxy, the restarted invocation is not
\* headless, and once one restart was made no second one ever is.
C1_RestartedAtMostOnce ==
    /\ restarts <= 1
    /\ \A i \in 2..Len(stack) : ~stack[i].headless
    /\ \A p \in PassIds : passes[p].outcome = "restart" => passes[p].headless /\ ~proxy

\* C2: a backend whose pass ended with an exception contributes no listing
\* to the value scrape returns, and no exception of a pass leaves scrape
\* (the only exception the model lets out of the top-level call is that of
\* line 474, which no pass has begun by then).
C2_FailedPassContributesNothing ==
    /\ ret.kind = "value" =>
          \A i \in 1..Len(ret.results) :
              passes[ret.results[i].pass].outcome # "exception"
    /\ ret.kind = "raised" => passes = <<>>

C15_CappedAndDistinct ==
    ret.kind = "value" =>
        /\ Len(ret.results) <= max_results
        /\ \A i, j \in 1..Len(ret.results) :
              i # j => ret.results[i].url # ret.results[j].url

(***************************************************************************)
(* write_rows_to_shopee_template(): lines 349-466                          *)
(***************************************************************************)
MaxRecords == 2   \* records handed to one call: 1..MaxRecords
MaxImages  == 2   \* image references of a record: 1..MaxImages

MaxOf(a, b) == IF a > b THEN a ELSE b

\* ws.cell(r, c).value = v: the grid grows to hold the cell
SetCell(sheet, r, c, v) ==
    LET nr == MaxOf(Len(sheet.cells), r)
        nc == MaxOf(IF sheet.cells = <<>> THEN 0 ELSE Len(sheet.cells[1]), c)
    IN  [cells |-> [rr \in 1..nr |-> [cc \in 1..nc |->
                       IF rr = r /\ cc = c THEN v ELSE CellValue(sheet, rr, cc)]],
         max_column |-> MaxOf(sheet.max_column, c)]

\* the labels of lines 374-377, 393 and 395, in that order
FieldOrder ==
    <<"Kategori", "NamaProduk", "DeskripsiProduk", "Harga", "Stok", "SKUInduk",
      "Berat", "Panjang", "Lebar", "Tinggi", "FotoProduk", "MasaGaransi">>

\* the text of each label
FieldLabel ==
    [Kategori |-> <<"Kategori">>, NamaProduk |-> <<"Nama", "Produk">>,
     DeskripsiProduk |-> <<"Deskripsi", "Produk">>, Harga |-> <<"Harga">>,
     Stok |-> <<"Stok">>, SKUInduk |-> <<"SKU", "Induk">>,
     Berat |-> <<"Berat", "(gram)">>, Panjang |-> <<"Panjang", "Paket", "(cm)">>,
     Lebar |-> <<"Lebar", "Paket", "(cm)">>, Tinggi |-> <<"Tinggi", "Paket", "(cm)">>,
     FotoProduk |-> <<"Foto", "Produk">>, MasaGaransi |-> <<"Masa", "Garansi">>]

\* lines 373-377: a new sheet holding the twelve labels in row 1
MinimalSheet ==
    [cells |-> << [c \in 1..Len(FieldOrder) |-> FieldLabel[FieldOrder[c]]] >>,
     max_column |-> Len(FieldOrder)]

\* lines 379-382
MinimalColmap ==
    [t \in Targets |-> CHOOSE i \in 1..Len(FieldOrder) : FieldOrder[i] = t]

\* ensure_col(label), lines 385-391, on the pair (worksheet, colmap_found)
ensure_col(st, hdr_row, label) ==
    IF In(label, st.colmap_found) THEN st
    ELSE LET new_idx == st.ws.max_column + 1
         IN  [ws |-> SetCell(st.ws, hdr_row, new_idx, FieldLabel[label]),
              colmap_found |-> [st.colmap_found EXCEPT ![label] = new_idx]]

\* lines 393-396: ensure_col for the labels FieldOrder[i], FieldOrder[i+1], ...
RECURSIVE EnsureFrom(_, _, _)
EnsureFrom(st, hdr_row, i) ==
    IF i > Len(FieldOrder) THEN st
    ELSE EnsureFrom(ensure_col(st, hdr_row, FieldOrder[i]), hdr_row, i + 1)

\* lines 398-403: the columns of row hdr_row whose label is an image label
RECURSIVE ImgColsOfRow(_, _, _)
ImgColsOfRow(sheet, hdr_row, c) ==
    IF c > sheet.max_column THEN <<>>
    ELSE (IF IMG_LABEL_RE(_norm_text(CellValue(sheet, hdr_row, c))) THEN <<c>> ELSE <<>>)
         \o ImgColsOfRow(sheet, hdr_row, c + 1)

\* line 409: re.search(r"(?:item image|foto produk)\s*(\d+)$", t); the slot
\* number, 0 when there is no match.  "item image" and "foto produk" are
\* two words with exactly one space between them.
SlotNumber(t) ==
    LET n == Len(t)
    IN  IF n >= 2 /\ t[n - 1] = "item" /\ \E d \in Digits : t[n] = "image" \o d
        THEN ToInt(CHOOSE d \in Digits : t[n] = "image" \o d)
        ELSE IF n >= 3 /\ t[n] \in Digits /\ \E j \in 2..(n - 1) :
                    /\ \A k \in (j + 1)..(n - 1) : t[k] = ""
                    /\ <<t[j - 1], t[j]>> \in {<<"item", "image">>, <<"foto", "produk">>}
        THEN ToInt(t[n])
        ELSE 0

\* _img_rank(c), lines 405-412
_img_rank(sheet, hdr_row, c) ==
    LET t == _norm_text(CellValue(sheet, hdr_row, c))
    IN  IF t \in {<<"cover", "image">>, <<"foto", "sampul">>, <<"foto", "utama">>}
        THEN <<0, 0, c>>
        ELSE IF SlotNumber(t) # 0 THEN <<1, SlotNumber(t), c>>
        ELSE <<2, 999, c>>

\* tuple comparison of Python
TupleLess(a, b) ==
    \/ a[1] < b[1]
    \/ a[1] = b[1] /\ a[2] < b[2]
    \/ a[1] = b[1] /\ a[2] = b[2] /\ a[3] < b[3]

\* sorted(img_cols, key=_img_rank), line 414
RECURSIVE SortedByRank(_, _, _)
SortedByRank(sheet, hdr_row, s) ==
    IF s = <<>> THEN <<>>
    ELSE LET i == CHOOSE k \in 1..Len(s) : \A j \in 1..Len(s) :
                     j = k \/ TupleLess(_img_rank(sheet, hdr_row, s[k]),
                                        _img_rank(sheet, hdr_row, s[j]))
         IN  <<s[i]>> \o SortedByRank(sheet, hdr_row,
                                      SubSeq(s, 1, i - 1) \o SubSeq(s, i + 1, Len(s)))

\* row_has_data(rr), lines 416-420
row_has_data(sheet, rr) ==
    \E c \in 1..sheet.max_column : CellValue(sheet, rr, c) # <<>>

\* lines 421-422: r = hdr_row + 1; while row_has_data(r): r += 1
RECURSIVE FirstBlankFrom(_, _)
FirstBlankFrom(sheet, r) ==
    IF row_has_data(sheet, r) THEN FirstBlankFrom(sheet, r + 1) ELSE r

\* ",".join(urls)
RECURSIVE Joined(_)
Joined(urls) ==
    IF urls = <<>> THEN ""
    ELSE IF Len(urls) = 1 THEN urls[1]
    ELSE urls[1] \o "," \o Joined(Tail(urls))

\* a cell holding the string s
Str(s) == IF s = "" THEN <<>> ELSE <<s>>

\* lines 449-451: urls[idx] into img_cols[idx] while idx < len(urls)
RECURSIVE PlaceImages(_, _, _, _, _)
PlaceImages(sheet, r, img_cols, urls, idx) ==
    IF idx > Len(img_cols) THEN sheet
    ELSE PlaceImages(IF idx <= Len(urls) THEN SetCell(sheet, r, img_cols[idx], <<urls[idx]>>)
                     ELSE sheet,
                     r, img_cols, urls, idx + 1)

\* lines 427-445: the scalar fields of a record, every column being known
\* after lines 393-396
RECURSIVE PlaceFields(_, _, _, _, _)
PlaceFields(sheet, r, colmap_found, row, fields) ==
    IF fields = <<>> THEN sheet
    ELSE PlaceFields(SetCell(sheet, r, colmap_found[fields[1]], <<row[fields[1]]>>),
                     r, colmap_found, row, Tail(fields))

\* the fields written by lines 427-445, in that order
ScalarFields ==
    <<"Kategori", "NamaProduk", "DeskripsiProduk", "Harga", "Stok", "SKUInduk",
      "Berat", "Panjang", "Lebar", "Tinggi">>

\* the image references of a record
ImageRefs == <<"i1", "i2", "i3">>

\* a record of rows, as main builds it (lines 720-730): no "warranty" key
RowOf(k) ==
    [Kategori |-> "cat", NamaProduk |-> "name", DeskripsiProduk |-> "desc",
     Harga |-> "price", Stok |-> "stock", SKUInduk |-> "sku", Berat |-> "weight",
     Panjang |-> "L", Lebar |-> "W", Tinggi |-> "H",
     image_urls |-> Prefix(ImageRefs, k)]

\* the top of a template: a header row whose first column may lack its label
HeaderCells ==
    {<<>>, <<"Photo">>, <<"Description">>, <<"Foto", "Sampul">>, <<"Cover-Image">>,
     <<"Item", "Image", "1">>, <<"Foto", "Produk", "2">>}

HeaderRowsOfTemplates ==
    {<<c1, <<"Name">>, c3, c4>> : c1 \in {<<>>, <<"Category">>},
                                 c3 \in HeaderCells, c4 \in HeaderCells}

\* a data row of a template: empty, or filled by an earlier run
BlankRow == [c \in 1..search_cols |-> <<>>]
FilledRow == [c \in 1..search_cols |-> <<"old">>]

\* a header cell over two rows: the label in the lower row, or split
SplitCells ==
    {<< <<>>, <<>> >>, << <<>>, <<"Foto", "Sampul">> >>, << <<"Foto">>, <<"Sampul">> >>,
     << <<"Foto">>, <<"Produk", "1">> >>, << <<"Item">>, <<"Image", "2">> >>}

\* headers of two rows: the image labels reach into the second row
TwoRowHeadersOfTemplates ==
    {<< <<<<"Category">>, <<"Name">>, c3[1], c4[1]>>, <<<<>>, <<>>, c3[2], c4[2]>> >> :
        c3 \in SplitCells, c4 \in SplitCells}

\* the worksheet picked by lines 363-366: a header of one or two rows and
\* two data rows
Templates ==
    {[cells |-> <<h, d1, d2>>, max_column |-> search_cols] :
        h \in HeaderRowsOfTemplates, d1 \in {BlankRow, FilledRow},
        d2 \in {BlankRow, FilledRow}}
    \cup
    {[cells |-> h \o <<d1, d2>>, max_column |-> search_cols] :
        h \in TwoRowHeadersOfTemplates, d1 \in {BlankRow, FilledRow},
        d2 \in {BlankRow, FilledRow}}

\* args.warranty, line 674: the default and a text of the operator
WarrantyOptions == {"Tidak bergaransi", "12 Bulan"}

\* row.get(key), "" standing for None
RowGet(row, key) == IF key \in DOMAIN row THEN row[key] ELSE ""

\* the argument rows
RowLists == {rs \in SeqsUpTo({RowOf(k) : k \in 1..MaxImages}, MaxRecords) : rs # <<>>}

\* line 368 with a header found: the scan has touched every cell of the
\* window, so ws.max_column is at least search_cols
WriteOpen ==
    /\ wr.pc = "call"
    /\ LET res == _find_header_positions(ws)
       IN  /\ res.hdr_row # 0
           /\ hdr' = res
           /\ ws' = [ws EXCEPT !.max_column = MaxOf(@, search_cols)]
           /\ wr' = [wr EXCEPT !.pc = "ensure", !.hdr_row = res.hdr_row,
                               !.colmap_found = res.found,
                               !.img_cols = res.image_cols]
    /\ UNCHANGED nonSheetVars

\* lines 368-383: no header found, a minimal sheet replaces the worksheet
WriteOpenMinimal ==
    /\ wr.pc = "call"
    /\ LET res == _find_header_positions(ws)
       IN  /\ res.hdr_row = 0
           /\ hdr' = res
           /\ ws' = MinimalSheet
           /\ wr' = [wr EXCEPT !.pc = "ensure", !.hdr_row = 1,
                               !.colmap_found = MinimalColmap, !.img_cols = <<>>]
    /\ UNCHANGED nonSheetVars

\* lines 385-422: missing columns, image-slot columns in rank order, cursor
WritePrepare ==
    /\ wr.pc = "ensure"
    /\ LET st       == EnsureFrom([ws |-> ws, colmap_found |-> wr.colmap_found],
                                  wr.hdr_row, 1)
           img_cols == SortedInts(ImgColsOfRow(st.ws, wr.hdr_row, 1))
       IN  /\ ws' = st.ws
           /\ wr' = [wr EXCEPT !.pc = "rows", !.colmap_found = st.colmap_found,
                               !.img_cols = SortedByRank(st.ws, wr.hdr_row, img_cols),
                               !.r = FirstBlankFrom(st.ws, wr.hdr_row + 1)]
    /\ UNCHANGED <<hdr>>
    /\ UNCHANGED nonSheetVars

\* lines 426-463: one turn of the loop over rows.  "Masa Garansi" is in
\* colmap_found since line 396, so line 458 is the branch taken.
WriteRow ==
    /\ wr.pc = "rows"
    /\ wr.rows # <<>>
    /\ LET row    == Head(wr.rows)
           urls   == Prefix(row.image_urls, 8)
           s1     == PlaceFields(ws, wr.r, wr.colmap_found, row, ScalarFields)
           s2     == IF wr.img_cols # <<>>
                     THEN PlaceImages(s1, wr.r, wr.img_cols, urls, 1)
                     ELSE SetCell(s1, wr.r, wr.colmap_found["FotoProduk"],
                                  Str(Joined(urls)))
           warranty_text == IF RowGet(row, "warranty") # ""
                            THEN RowGet(row, "warranty") ELSE "No Warranty"
           s3     == SetCell(s2, wr.r, wr.colmap_found["MasaGaransi"], <<warranty_text>>)
       IN  /\ ws' = s3
           /\ wr' = [wr EXCEPT !.rows = Tail(@), !.r = @ + 1, !.written = @ + 1,
                               !.last = row.image_urls]
    /\ UNCHANGED <<hdr>>
    /\ UNCHANGED nonSheetVars

\* line 465: wb.save(out_path)
WriteSave ==
    /\ wr.pc = "rows"
    /\ wr.rows = <<>>
    /\ wr' = [wr EXCEPT !.pc = "saved"]
    /\ UNCHANGED <<ws, hdr>>
    /\ UNCHANGED nonSheetVars

InitWrite ==
    /\ ws \in Templates
    /\ hdr = NotCalled
    /\ \E rs \in RowLists, w \in WarrantyOptions :
          wr = [NoWrite EXCEPT !.pc = "call", !.rows = rs, !.before = ws, !.warranty = w]
    /\ IdleScrape /\ IdleUrl /\ IdleDesc /\ IdleMedia

NextWrite ==
    \/ WriteOpen
    \/ WriteOpenMinimal
    \/ WritePrepare
    \/ WriteRow
    \/ WriteSave

SpecWrite == InitWrite /\ [][NextWrite]_vars

(***************************************************************************)
(* Claims about write_rows_to_shopee_template                              *)
(***************************************************************************)
\* row r of the sheet has no value in any of its columns
RowBlank(sheet, r) == \A c \in 1..sheet.max_column : CellValue(sheet, r, c) = <<>>

\* the first fully blank row below the header
CursorOf(sheet) ==
    LeastOf({r \in (wr.hdr_row + 1)..(Len(sheet.cells) + 1) : RowBlank(sheet, r)})

\* the rows have been prepared on a worksheet whose header resolved
Resolved == hdr.called /\ hdr.hdr_row # 0 /\ wr.pc \in {"rows", "saved"}

\* C5: on a worksheet whose header resolves, no cell of a data row that was
\* non-blank at the call is changed, occupied rows below a blank row
\* included; the records go one per row into consecutive rows from the first
\* fully blank row below the header on, so the blank-row cursor resolved
\* again after a record is the previous cursor plus one.
C5_AppendOnly ==
    Resolved =>
        /\ \A r \in (wr.hdr_row + 1)..Len(wr.before.cells) :
              ~RowBlank(wr.before, r) =>
                  \A c \in 1..ws.max_column :
                      CellValue(ws, r, c) = CellValue(wr.before, r, c)
        /\ wr.r = CursorOf(wr.before) + wr.written
        /\ wr.written >= 1 => CursorOf(ws) = wr.r

\* the references joined by commas, first to last
RECURSIVE CommaJoined(_, _)
CommaJoined(urls, k) ==
    IF k = 0 THEN ""
    ELSE IF k = 1 THEN urls[1]
    ELSE CommaJoined(urls, k - 1) \o "," \o urls[k]

\* C6: in the row of the record written last, with k <= 8 references and n
\* image-slot columns: for n >= 1 the i-th reference is in the i-th column
\* of the placement order for i <= min(k, n) and the image-slot columns
\* beyond k are blank; for n = 0 the photo column holds the k references
\* joined by commas in their order.
C6_ImagePlacement ==
    (Resolved /\ wr.written >= 1 /\ Len(wr.last) <= 8) =>
        LET rr == wr.r - 1
            k  == Len(wr.last)
            n  == Len(wr.img_cols)
        IN  IF n >= 1
            THEN \A i \in 1..n :
                    CellValue(ws, rr, wr.img_cols[i])
                        = IF i <= k THEN <<wr.last[i]>> ELSE <<>>
            ELSE CellValue(ws, rr, wr.colmap_found["FotoProduk"])
                    = <<CommaJoined(wr.last, k)>>

\* an image label of the cover/main kind: foto sampul, foto utama, cover image
IsCoverLabel(t) ==
    /\ IMG_LABEL_RE(t)
    /\ Squeeze(t) \in {<<"foto", "sampul">>, <<"foto", "utama">>, <<"cover", "image">>,
                       <<"coverimage">>}

\* an image label of the numbered kind: foto produk N, item image N
IsNumberedLabel(t) == IMG_LABEL_RE(t) /\ ~IsCoverLabel(t)

\* the slot number a numbered label ends with
NumberOf(t) ==
    CHOOSE n \in 1..3 : \E d \in Digits :
        /\ ToInt(d) = n
        /\ t[Len(t)] \in {d, "image" \o d, "itemimage" \o d}

\* cover/main columns first, then the numbered columns by ascending number
RankSorted(cols, label(_)) ==
    \A i \in 1..Len(cols) : \A j \in (i + 1)..Len(cols) :
        /\ ~(IsNumberedLabel(label(cols[i])) /\ IsCoverLabel(label(cols[j])))
        /\ (IsNumberedLabel(label(cols[i])) /\ IsNumberedLabel(label(cols[j])))
              => NumberOf(label(cols[i])) <= NumberOf(label(cols[j]))

\* the label the writer reads in column c
WriterLabel(c) == _norm_text(CellValue(ws, wr.hdr_row, c))

\* C7: in the writer's placement order every cover/main image column comes
\* before every numbered item-image column and the numbered columns are in
\* ascending slot number, wherever the columns stand in the sheet; so the
\* first placement column is a cover/main column whenever the header row
\* has one.
C7_CoverFirst ==
    wr.pc \in {"rows", "saved"} =>
        /\ RankSorted(wr.img_cols, WriterLabel)
        /\ (\E c \in 1..ws.max_column : IsCoverLabel(WriterLabel(c)))
              => (wr.img_cols # <<>> /\ IsCoverLabel(WriterLabel(wr.img_cols[1])))

\* the label of column c in the header _find_header_positions accepted
ResolvedLabel(c) == _norm_text(RowsText(c, hdr.start_r, hdr.hdr_row))

\* C10: the image columns _find_header_positions returns are rank-sorted:
\* cover-type columns first, then numbered slots by ascending number,
\* whatever the physical order of the columns.
C10_ImageColsRankSorted ==
    (hdr.called /\ hdr.hdr_row # 0) => RankSorted(hdr.image_cols, ResolvedLabel)

\* C13: every row appended to the workbook has in its warranty cell the
\* warranty text of the operator (args.warranty, carried on the record); the
\* placeholder "No Warranty" is written only when there is no such text.
C13_OperatorWarranty ==
    (wr.pc \in {"rows", "saved"} /\ wr.written >= 1) =>
        /\ In("MasaGaransi", wr.colmap_found)
        /\ CellValue(ws, wr.r - 1, wr.colmap_found["MasaGaransi"])
              = IF wr.warranty # "" THEN <<wr.warranty>> ELSE <<"No Warranty">>

\* C14: when the header was accepted (with height 1, 2 or 3), the image-slot
\* columns the writer places images into are the image-slot columns
\* _find_header_positions found; so when it found one, also through a header
\* of several rows, the references of a record go into slot columns and are
\* not joined by commas into the photo column.
C14_SameImageColumns ==
    Resolved =>
        /\ Range(wr.img_cols) = Range(hdr.image_cols)
        /\ (hdr.image_cols # <<>> /\ wr.written >= 1 /\ wr.last # <<>>) =>
              /\ \E c \in Range(hdr.image_cols) :
                    CellValue(ws, wr.r - 1, c) = <<wr.last[1]>>
              /\ CellValue(ws, wr.r - 1, wr.colmap_found["FotoProduk"])
                    # <<CommaJoined(wr.last, Len(wr.last))>>

(***************************************************************************)
(* shopee_safe_image_url(): lines 44-53.  A URL is the sequence of its     *)
(* pieces: the piece "https://h/p.png" (scheme, host and the start of the  *)
(* path) followed by pieces of UrlPieces; the empty string is <<>>.  All   *)
(* pieces are lower-case, so (?i) changes nothing.                         *)
(***************************************************************************)
MaxUrlPieces == 5   \* pieces after the first one: at most this many

UrlBase == "https://h/p.png"

UrlPieces == {"/format", ",webp", "format=", "webp", "&", "?", "#", "x-oss-process="}

\* the piece begins with a character of \w
StartsWithWordChar(piece) == piece \in {"format=", "webp", "png", "x-oss-process="}

\* the index of the first x in s, Len(s)+1 when there is none
FirstIndex(s, x) ==
    IF \E i \in 1..Len(s) : s[i] = x
    THEN CHOOSE i \in 1..Len(s) : s[i] = x /\ \A j \in 1..(i - 1) : s[j] # x
    ELSE Len(s) + 1

\* urlsplit(url): the fragment begins after the first "#", the query after
\* the first "?" before it
urlsplit(url) ==
    LET rest   == Tail(url)
        h      == FirstIndex(rest, "#")
        before == SubSeq(rest, 1, h - 1)
        q      == FirstIndex(before, "?")
    IN  [base     |-> Head(url),
         path     |-> SubSeq(before, 1, q - 1),
         query    |-> SubSeq(before, q + 1, Len(before)),
         fragment |-> SubSeq(rest, h + 1, Len(rest))]

\* urlunsplit((scheme, netloc, path, query, fragment))
urlunsplit(base, path, query, fragment) ==
    <<base>> \o path
    \o (IF query # <<>> THEN <<"?">> \o query ELSE <<>>)
    \o (IF fragment # <<>> THEN <<"#">> \o fragment ELSE <<>>)

\* \b after the piece q[i-1] that ends in a character of \w
BoundaryAt(q, i) == i > Len(q) \/ ~StartsWithWordChar(q[i])

\* re.sub(r"(?i)/format,webp\b", "", q), line 49: one pass from the left
\* over q[i..], without looking again at what a removal leaves behind
RECURSIVE RemoveFormatWebp(_, _)
RemoveFormatWebp(q, i) ==
    IF i > Len(q) THEN <<>>
    ELSE IF i < Len(q) /\ q[i] = "/format" /\ q[i + 1] = ",webp" /\ BoundaryAt(q, i + 2)
    THEN RemoveFormatWebp(q, i + 2)
    ELSE <<q[i]>> \o RemoveFormatWebp(q, i + 1)

\* re.sub(r"(?i)(^|[&?])format=webp\b", r"\1format=png", q), line 50
FormatPng(q) ==
    [i \in 1..Len(q) |->
        IF /\ i >= 2 /\ q[i - 1] = "format=" /\ q[i] = "webp"
           /\ (i = 2 \/ q[i - 2] \in {"&", "?"})
           /\ BoundaryAt(q, i + 1)
        THEN "png" ELSE q[i]]

shopee_safe_image_url(url) ==
    IF url = <<>> THEN <<>>
    ELSE LET sp == urlsplit(url)
             q  == FormatPng(RemoveFormatWebp(sp.query, 1))
         IN  IF q = <<>> \/ q = <<"x-oss-process=">>
             THEN urlunsplit(sp.base, sp.path, <<>>, <<>>)
             ELSE urlunsplit(sp.base, sp.path, q, <<>>)

\* the URLs handed to shopee_safe_image_url
UrlInputs == {<<>>} \cup {<<UrlBase>> \o r : r \in SeqsUpTo(UrlPieces, MaxUrlPieces)}

\* u2 = shopee_safe_image_url(u): the first call on u, the second on the
\* result of the first
Sanitize ==
    /\ Len(safe) < 2
    /\ safe' = Append(safe, shopee_safe_image_url(IF safe = <<>> THEN u ELSE safe[Len(safe)]))
    /\ UNCHANGED u
    /\ UNCHANGED nonUrlVars

InitUrl ==
    /\ u \in UrlInputs
    /\ safe = <<>>
    /\ IdleScrape /\ IdleSheet /\ IdleDesc /\ IdleMedia

NextUrl == Sanitize

SpecUrl == InitUrl /\ [][NextUrl]_vars

(***************************************************************************)
(* Claims about shopee_safe_image_url                                      *)
(***************************************************************************)
\* the number of characters of a sequence of pieces
RECURSIVE CharLen(_)
CharLen(s) == IF s = <<>> THEN 0 ELSE Len(Head(s)) + CharLen(Tail(s))

\* the query of a URL, "" for the empty string
QueryOf(url) == IF url = <<>> THEN <<>> ELSE urlsplit(url).query

\* C8: shopee_safe_image_url is idempotent, sanitize(sanitize(u)) =
\* sanitize(u) for every URL u, also when the query holds the webp directive
\* several times or one inside another; and the query of sanitize(u) is
\* never longer than the query of u.
C8_Idempotent ==
    /\ Len(safe) >= 1 => CharLen(QueryOf(safe[1])) <= CharLen(QueryOf(u))
    /\ Len(safe) = 2 => safe[2] = safe[1]

(***************************************************************************)
(* _clean_desc_text(): lines 145-163, strip_urls(): lines 285-291.         *)
(* A text is the sequence of its lines, a line the sequence of its words,  *)
(* which single spaces separate; an empty word stands for the second of    *)
(* two adjacent spaces, or for a space at an end of the line.              *)
(***************************************************************************)
MaxLines     == 2   \* lines of a description: at most this many
MaxLineWords == 2   \* words of a line: at most this many

DescWords == {"nice", "Design", "Source:", "Source&colon;", "FAQ", "https://x.com"}

\* html.unescape on one word, line 160
Unescape(word) == IF word = "Source&colon;" THEN "Source:" ELSE word

\* the words of a line that are not empty
Words(line) == SelectSeq(line, LAMBDA w : w # "")

\* any(p.search(ln) for p in _REMOVE_LINE_PATTERNS), lines 145-151 and 162.
\* "print profile:", "sumber desain:" and "design source:" are patterns of
\* one shape, ^\s*word\s*word\s*:.*$; "Design Source:" stands for the three.
MatchesRemovePattern(line) ==
    LET w == Words(line)
    IN  /\ w # <<>>
        /\ \/ Len(w) >= 2 /\ w[1] = "Design" /\ w[2] = "Source:"
           \/ w[1] = "Source:"
           \/ w[Len(w)] = "FAQ"

\* URL_RE (lines 266-268) matches the whole word
IsUrl(word) == word = "https://x.com"

\* re.sub(r"[ \t]+", " ", text) on one line, line 289: a run of spaces
\* becomes one space
CollapseSpaces(line) ==
    LET w == Words(line)
    IN  IF w = <<>> THEN (IF Len(line) >= 2 THEN <<"", "">> ELSE <<>>)
        ELSE (IF line[1] = "" THEN <<"">> ELSE <<>>)
             \o w
             \o (IF line[Len(line)] = "" THEN <<"">> ELSE <<>>)

\* re.sub(r"\n{3,}", "\n\n", text), line 290: of several empty lines in a
\* row one is kept
RECURSIVE CollapseNewlines(_)
CollapseNewlines(lines) ==
    IF Len(lines) <= 1 THEN lines
    ELSE IF lines[1] = <<>> /\ lines[2] = <<>> THEN CollapseNewlines(Tail(lines))
    ELSE <<lines[1]>> \o CollapseNewlines(Tail(lines))

\* the line holds nothing but spaces
OnlySpace(line) == Words(line) = <<>>

\* text.strip(), line 291: white space removed from both ends of the text
RECURSIVE StripLeft(_)
StripLeft(lines) ==
    IF lines = <<>> THEN <<>>
    ELSE IF OnlySpace(lines[1]) THEN StripLeft(Tail(lines))
    ELSE IF lines[1][1] = "" THEN <<Tail(lines[1])>> \o Tail(lines)
    ELSE lines

RECURSIVE StripRight(_)
StripRight(lines) ==
    LET n == Len(lines)
    IN  IF lines = <<>> THEN <<>>
        ELSE IF OnlySpace(lines[n]) THEN StripRight(SubSeq(lines, 1, n - 1))
        ELSE IF lines[n][Len(lines[n])] = ""
        THEN SubSeq(lines, 1, n - 1) \o <<SubSeq(lines[n], 1, Len(lines[n]) - 1)>>
        ELSE lines

\* strip_urls(text), lines 285-291
strip_urls(text) ==
    IF text = <<>> THEN <<>>
    ELSE LET no_urls == [i \in 1..Len(text) |->
                            [j \in 1..Len(text[i]) |->
                                IF IsUrl(text[i][j]) THEN "" ELSE text[i][j]]]
             spaces  == [i \in 1..Len(text) |-> CollapseSpaces(no_urls[i])]
         IN  StripRight(StripLeft(CollapseNewlines(spaces)))

\* _clean_desc_text(desc), lines 157-163
_clean_desc_text(d) ==
    IF d = <<>> THEN <<>>
    ELSE LET text  == [i \in 1..Len(d) |-> [j \in 1..Len(d[i]) |-> Unescape(d[i][j])]]
             lines == SelectSeq(text, LAMBDA ln : ln # <<>>)
         IN  strip_urls(SelectSeq(lines, LAMBDA ln : ~MatchesRemovePattern(ln)))

\* the descriptions handed to _clean_desc_text
DescLines == SeqsUpTo(DescWords, MaxLineWords)

DescTexts == SeqsUpTo(DescLines, MaxLines)

CleanDesc ==
    /\ ~cleaned.done
    /\ cleaned' = [done |-> TRUE, text |-> _clean_desc_text(desc)]
    /\ UNCHANGED desc
    /\ UNCHANGED nonDescVars

InitDesc ==
    /\ desc \in DescTexts
    /\ cleaned = NotCleaned
    /\ IdleScrape /\ IdleSheet /\ IdleUrl /\ IdleMedia

NextDesc == CleanDesc

SpecDesc == InitDesc /\ [][NextDesc]_vars

(***************************************************************************)
(* Claims about _clean_desc_text                                           *)
(***************************************************************************)
\* C9: for every description, no line of the text _clean_desc_text returns
\* matches a boilerplate pattern and no word of it is a URL, also when a
\* line matches a boilerplate pattern only once a URL on it is gone.
C9_NoBoilerplateNoUrl ==
    cleaned.done =>
        \A i \in 1..Len(cleaned.text) :
            /\ ~MatchesRemovePattern(cleaned.text[i])
            /\ \A j \in 1..Len(cleaned.text[i]) : ~IsUrl(cleaned.text[i][j])

(***************************************************************************)
(* _shopee_safe_jpg_bytes(): lines 55-67.  An image is known by the size   *)
(* of its JPEG encoding at each quality.                                   *)
(***************************************************************************)
MAX_SHOPEE_IMG_BYTES == 2000000

\* for q in [92, 90, ..., 64], line 58
QualityLadder == <<92, 90, 88, 86, 84, 82, 80, 78, 76, 74, 72, 70, 68, 66, 64>>

\* the quality of line 66
LastResortQuality == 60

Qualities == Range(QualityLadder) \cup {LastResortQuality}

\* len(buf.getvalue()) of some encoding
EncodedSizes ==
    {MAX_SHOPEE_IMG_BYTES - 1, MAX_SHOPEE_IMG_BYTES, MAX_SHOPEE_IMG_BYTES + 1,
     2 * MAX_SHOPEE_IMG_BYTES}

\* The images: the encoded size is lo below quality a, mid from a up to b
\* and hi from b on, whatever the order of lo, mid and hi.
SizeTable(lo, mid, hi, a, b) ==
    [q \in Qualities |-> IF q < a THEN lo ELSE IF q < b THEN mid ELSE hi]

Images ==
    {SizeTable(lo, mid, hi, a, b) :
        lo \in EncodedSizes, mid \in EncodedSizes, hi \in EncodedSizes,
        a \in {62, 65, 80}, b \in {80, 91, 93}}

\* lines 59-63: the encoding at QualityLadder[i] fits, it is returned
JpgReturnFitting ==
    /\ jpg.pc = "loop"
    /\ jpg.i <= Len(QualityLadder)
    /\ jpg.size[QualityLadder[jpg.i]] <= MAX_SHOPEE_IMG_BYTES
    /\ jpg' = [jpg EXCEPT !.pc = "returned", !.quality = QualityLadder[jpg.i],
                          !.len = jpg.size[QualityLadder[jpg.i]]]
    /\ UNCHANGED nonJpgVars

\* lines 59-62: the encoding at QualityLadder[i] is too large, next quality
JpgTooLarge ==
    /\ jpg.pc = "loop"
    /\ jpg.i <= Len(QualityLadder)
    /\ jpg.size[QualityLadder[jpg.i]] > MAX_SHOPEE_IMG_BYTES
    /\ jpg' = [jpg EXCEPT !.i = @ + 1]
    /\ UNCHANGED nonJpgVars

\* lines 65-67: the loop has ended without a return
JpgLastResort ==
    /\ jpg.pc = "loop"
    /\ jpg.i > Len(QualityLadder)
    /\ jpg' = [jpg EXCEPT !.pc = "returned", !.quality = LastResortQuality,
                          !.len = jpg.size[LastResortQuality]]
    /\ UNCHANGED nonJpgVars

InitJpg ==
    /\ \E img \in Images : jpg = [NoJpg EXCEPT !.pc = "loop", !.size = img, !.i = 1]
    /\ gal = NoGallery
    /\ IdleScrape /\ IdleSheet /\ IdleUrl /\ IdleDesc

NextJpg ==
    \/ JpgReturnFitting
    \/ JpgTooLarge
    \/ JpgLastResort

SpecJpg == InitJpg /\ [][NextJpg]_vars

(***************************************************************************)
(* Claims about _shopee_safe_jpg_bytes                                     *)
(***************************************************************************)
\* the ladder qualities whose encoding is within the byte budget
FittingQualities ==
    {q \in Range(QualityLadder) : jpg.size[q] <= MAX_SHOPEE_IMG_BYTES}

\* C11: the function returns the encoding at the highest ladder quality (92
\* down to 64) whose size is at most 2,000,000 bytes; when no ladder quality
\* fits it returns the encoding at quality 64; so the returned quality is
\* always on the ladder, and the result is within the budget whenever some
\* ladder quality fits.
C11_LadderQuality ==
    jpg.pc = "returned" =>
        /\ jpg.quality \in Range(QualityLadder)
        /\ jpg.len = jpg.size[jpg.quality]
        /\ IF FittingQualities # {}
           THEN /\ jpg.quality \in FittingQualities
                /\ \A q \in FittingQualities : q <= jpg.quality
                /\ jpg.len <= MAX_SHOPEE_IMG_BYTES
           ELSE jpg.quality = 64

(***************************************************************************)
(* get_gallery_urls(): lines 205-255.  An attribute value is the sequence  *)
(* of its pieces, like a URL; <<>> is a missing or empty attribute.  A     *)
(* piece may begin with a comma or with a space.                           *)
(***************************************************************************)
MaxImgs == 2   \* img elements in the gallery: at most this many

\* the piece begins with ","
StartsWithComma(piece) == piece \in {",", ",webp"}

\* the piece without its first character
AfterFirstChar(piece) ==
    CASE piece = ","     -> ""
      [] piece = ",webp" -> "webp"
      [] piece = " "     -> ""
      [] piece = " 1x"   -> "1x"
      [] piece = " 2x"   -> "2x"
      [] OTHER           -> piece

\* the piece begins with " "
StartsWithSpace(piece) == piece \in {" ", " 1x", " 2x"}

\* "," in u
HasComma(v) == \E k \in 1..Len(v) : StartsWithComma(v[k])

\* a sequence of pieces without the pieces that are ""
NonEmptyPieces(v) == SelectSeq(v, LAMBDA piece : piece # "")

\* u.split(",")[-1]
LastCommaPart(v) ==
    LET k == CHOOSE i \in 1..Len(v) :
                 StartsWithComma(v[i]) /\ \A j \in (i + 1)..Len(v) : ~StartsWithComma(v[j])
    IN  NonEmptyPieces(<<AfterFirstChar(v[k])>>) \o SubSeq(v, k + 1, Len(v))

\* s.strip() at the left end
RECURSIVE LeftStripped(_)
LeftStripped(v) ==
    IF v = <<>> THEN <<>>
    ELSE IF StartsWithSpace(v[1])
    THEN LeftStripped(NonEmptyPieces(<<AfterFirstChar(v[1])>>) \o Tail(v))
    ELSE v

\* s.split(" ")[0]
FirstWord(v) ==
    LET k == FirstIndex([i \in 1..Len(v) |-> StartsWithSpace(v[i])], TRUE)
    IN  SubSeq(v, 1, k - 1)

\* lines 222-225 on the first piece: "//..." gets "https:" in front, "/..."
\* is joined to https://makerworld.com
Absolute(v) ==
    IF v = <<>> THEN v
    ELSE [v EXCEPT ![1] = CASE @ = "//h/c.png" -> "https://h/c.png"
                            [] @ = "/d.png"    -> "https://makerworld.com/d.png"
                            [] OTHER           -> @]

\* line 227: one of the words of the list occurs in u.lower()
Blacklisted(v) == \E k \in 1..Len(v) : v[k] = "https://h/logo.png"

\* lines 229-233: the path of u ends in .jpg, .jpeg, .png, .webp or .avif
\* (ALLOW_GIF is False, line 16)
HasImageExt(v) ==
    /\ v # <<>>
    /\ LET sp   == urlsplit(v)
           path == <<sp.base>> \o sp.path
       IN  path[Len(path)] \in {"https://h/a.jpg", "https://h/b.jpg", "https://h/c.png",
                                "https://makerworld.com/d.png", "https://h/logo.png",
                                "https://h/og.jpg"}

\* line 218: src or data-src or srcset
AttrOf(im) ==
    IF im.src # <<>> THEN im.src
    ELSE IF im.data_src # <<>> THEN im.data_src
    ELSE im.srcset

\* lines 221-222: u after the split at the commas
Candidate(im) ==
    LET v == AttrOf(im)
    IN  IF HasComma(v) THEN FirstWord(LeftStripped(LastCommaPart(v))) ELSE v

\* the values of the attributes
SrcValues ==
    {<<>>, <<"https://h/a.jpg">>, <<"https://h/a.jpg", "?", "/format", ",webp">>,
     <<"https://h/logo.png">>, <<"/d.png">>, <<"//h/c.png">>, <<"https://h/e.gif">>}

DataSrcValues == {<<>>, <<"https://h/b.jpg">>}

SrcsetValues ==
    {<<>>, <<"https://h/a.jpg", " 1x">>,
     <<"https://h/a.jpg", " 1x", ",", " ", "https://h/b.jpg", " 2x">>}

ImgElements == [src : SrcValues, data_src : DataSrcValues, srcset : SrcsetValues]

\* the content of meta[property='og:image']
OgValues == {<<>>, <<"https://h/og.jpg">>}

\* lines 217-242: one turn of the loop over the img elements.  The clicks
\* of lines 209-215 change nothing the function reads.
GalleryImg ==
    /\ gal.pc = "imgs"
    /\ gal.i <= Len(gal.imgs)
    /\ LET im  == gal.imgs[gal.i]
           c   == Candidate(im)
           a   == Absolute(c)
           u2  == shopee_safe_image_url(a)
           add == /\ AttrOf(im) # <<>>
                  /\ ~Blacklisted(a)
                  /\ HasImageExt(a)
                  /\ u2 # <<>>
                  /\ u2 \notin Range(gal.urls)
           new == IF add THEN Append(gal.urls, u2) ELSE gal.urls
           brk == AttrOf(im) # <<>> /\ ~Blacklisted(a) /\ HasImageExt(a) /\ Len(new) = 8
       IN  gal' = [gal EXCEPT
                     !.urls  = new,
                     !.taken = IF AttrOf(im) # <<>>
                               THEN Append(@, [img |-> gal.i, u |-> c]) ELSE @,
                     !.i     = IF brk THEN Len(gal.imgs) + 1 ELSE @ + 1]
    /\ UNCHANGED nonGalVars

\* lines 218-242: a call on the element raises, except: pass
GalleryImgRaises ==
    /\ gal.pc = "imgs"
    /\ gal.i <= Len(gal.imgs)
    /\ gal' = [gal EXCEPT !.i = @ + 1]
    /\ UNCHANGED nonGalVars

\* lines 244-253 and 255: the og:image is the fallback of an empty list
GalleryReturn ==
    /\ gal.pc = "imgs"
    /\ gal.i > Len(gal.imgs)
    /\ gal' = [gal EXCEPT
                 !.pc   = "returned",
                 !.urls = Prefix(IF @ = <<>> /\ gal.og # <<>>
                                 THEN <<shopee_safe_image_url(gal.og)>> ELSE @, 8)]
    /\ UNCHANGED nonGalVars

\* lines 244-255: the query for the og:image raises, except: pass
GalleryReturnOgRaises ==
    /\ gal.pc = "imgs"
    /\ gal.i > Len(gal.imgs)
    /\ gal.urls = <<>>
    /\ gal' = [gal EXCEPT !.pc = "returned"]
    /\ UNCHANGED nonGalVars

\* line 206: without a .photo_show element there is no loop
InitGallery ==
    /\ \E has_g \in BOOLEAN, og \in OgValues :
         \E imgs \in IF has_g THEN SeqsUpTo(ImgElements, MaxImgs) ELSE {<<>>} :
            gal = [NoGallery EXCEPT !.pc = "imgs", !.has_g = has_g, !.imgs = imgs,
                                    !.og = og, !.i = 1]
    /\ jpg = NoJpg
    /\ IdleScrape /\ IdleSheet /\ IdleUrl /\ IdleDesc

NextGallery ==
    \/ GalleryImg
    \/ GalleryImgRaises
    \/ GalleryReturn
    \/ GalleryReturnOgRaises

SpecGallery == InitGallery /\ [][NextGallery]_vars

(***************************************************************************)
(* Claims about get_gallery_urls                                           *)
(***************************************************************************)
\* the first candidate URL of a source-set: the first word of what stands
\* before the first comma
FirstSrcsetUrl(v) ==
    LET c    == FirstIndex([i \in 1..Len(v) |-> StartsWithComma(v[i])], TRUE)
        part == LeftStripped(SubSeq(v, 1, c - 1))
    IN  FirstWord(part)

\* C12: for each img element of the gallery the candidate URL is the src
\* attribute if present, else the data-src attribute if present, else the
\* first candidate URL of the srcset; a src or data-src value is taken as it
\* is and never split at commas.
C12_CandidatePriority ==
    \A k \in 1..Len(gal.taken) :
        LET im == gal.imgs[gal.taken[k].img]
        IN  gal.taken[k].u =
                IF im.src # <<>> THEN im.src
                ELSE IF im.data_src # <<>> THEN im.data_src
                ELSE FirstSrcsetUrl(im.srcset)

====
